---- MODULE Spec2Model ----
(***************************************************************************)
(* A model of src/utf_convert.cpp: the conversion routines between UTF-8,  *)
(* UTF-16 and UTF-32 of the utf_convert namespace.                         *)
(*                                                                         *)
(* Every buffer is modelled by the bytes it holds in memory, in address    *)
(* order: a std::u32string of n elements is a sequence of 4n bytes, a      *)
(* std::u16string of n units a sequence of 2n bytes, a std::string a       *)
(* sequence of bytes.  The code itself reads its inputs through            *)
(* const uint8_t * and writes 32-bit results through the bytes of a union, *)
(* so the byte level is the level the code works at, and the model does    *)
(* not depend on the byte order of the host.  A byte is a number 0..255;   *)
(* the tests the code applies to a char (signed or unsigned) give the same *)
(* answer for the byte read as 0..255.                                     *)
(*                                                                         *)
(* Each conversion loop is modelled iteration by iteration: the cursor i,  *)
(* the output buffer and the return value are the state, and one step is   *)
(* one pass through the loop body.                                         *)
(***************************************************************************)
EXTENDS Integers, Sequences, FiniteSets, TLC

VARIABLES
    fn,        \* the entry point called last ("none" before the first call)
    pc,        \* "idle", or the conversion loop that is running
    arg,       \* the input buffer of the call (bytes in memory)
    endian,    \* the endianness argument of the call
    add_bom,   \* the add_bom argument of to_u32string
    src,       \* the bytes handed to the conversion loop (arg, or arg past its BOM)
    i,         \* the cursor of the running loop
    target8,   \* the caller's std::string output buffer
    target32,  \* the caller's std::u32string output buffer (bytes in memory)
    ret,       \* the value the last call returned
    prev,      \* history: the call completed before the current one
    budget     \* the number of calls the caller still makes

vars == <<fn, pc, arg, endian, add_bom, src, i, target8, target32, ret, prev, budget>>

----------------------------------------------------------------------------
(* Bounds of the model. *)

\* 32-bit elements in an input buffer of the UTF-32 encoder.
MaxUnits32 == 3
\* 16-bit units in an input buffer of the UTF-16 encoder.
MaxUnits16 == 3
\* Bytes in an input buffer of the decoder.
MaxBytes == 4
\* Calls in a session that reuses its output buffers.
MaxCalls == 3

----------------------------------------------------------------------------
(* Bit operations of C on non-negative integers. *)

RECURSIVE BitAnd(_, _)
BitAnd(a, b) ==
    IF a = 0 \/ b = 0 THEN 0
    ELSE (a % 2) * (b % 2) + 2 * BitAnd(a \div 2, b \div 2)

RECURSIVE BitOr(_, _)
BitOr(a, b) ==
    IF a = 0 THEN b
    ELSE IF b = 0 THEN a
    ELSE (IF a % 2 = 1 \/ b % 2 = 1 THEN 1 ELSE 0) + 2 * BitOr(a \div 2, b \div 2)

Shl(a, n) == a * (2 ^ n)
Shr(a, n) == a \div (2 ^ n)

\* The conversion to an 8-bit type (push_back on a std::string, a store to uint8_t).
ToU8(x) == x % 256

BIG_ENDIAN == "UTF_ENDIAN_BIG_ENDIAN"
LITTLE_ENDIAN == "UTF_ENDIAN_LITTLE_ENDIAN"
\* The two enumerators; every call of the model passes one of them.
Endians == {BIG_ENDIAN, LITTLE_ENDIAN}

\* The n bytes of element k (from 0) of a buffer of n-byte elements.
UnitAt(buf, k, n) == SubSeq(buf, k * n + 1, k * n + n)

\* The bytes of a buffer after its first n bytes (pointer + n).
DropBytes(buf, n) == SubSeq(buf, n + 1, Len(buf))

----------------------------------------------------------------------------
(* UTF-32 -> UTF-8: convert_u32str_to_u8str_without_bom.                    *)

(* The uint32_t assembled from the four bytes at cur.  TLC's integers are  *)
(* 32-bit signed, so the value is kept as its two 16-bit halves; the        *)
(* shifted bytes do not overlap, so the | of the code is a sum.            *)
ReadU32(cur, e) ==
    IF e = BIG_ENDIAN
    THEN [hi |-> Shl(cur[1], 8) + cur[2], lo |-> Shl(cur[3], 8) + cur[4]]
    ELSE [hi |-> Shl(cur[4], 8) + cur[3], lo |-> Shl(cur[2], 8) + cur[1]]

\* value < c for a uint32_t value and a constant c below 2^31.
U32Less(value, c) == value.hi < 32768 /\ value.hi * 65536 + value.lo < c

\* Faulty variant: the two-byte range ends one too late.
EncodeU32Value_Boundary(value) ==
    LET v == value.hi * 65536 + value.lo IN
    IF U32Less(value, 128) THEN [ok |-> TRUE, bytes |-> <<ToU8(v)>>]
    ELSE IF U32Less(value, 2049) THEN
        [ok |-> TRUE,
         bytes |-> <<ToU8(BitOr(BitAnd(Shr(v, 6), 31), 192)),
                     ToU8(BitOr(BitAnd(v, 63), 128))>>]
    ELSE IF U32Less(value, 65536) THEN
        [ok |-> TRUE,
         bytes |-> <<ToU8(BitOr(BitAnd(Shr(v, 12), 15), 224)),
                     ToU8(BitOr(BitAnd(Shr(v, 6), 63), 128)),
                     ToU8(BitOr(BitAnd(v, 63), 128))>>]
    ELSE IF U32Less(value, 1114112) THEN
        [ok |-> TRUE,
         bytes |-> <<ToU8(BitOr(BitAnd(Shr(v, 18), 7), 240)),
                     ToU8(BitOr(BitAnd(Shr(v, 12), 63), 128)),
                     ToU8(BitOr(BitAnd(Shr(v, 6), 63), 128)),
                     ToU8(BitOr(BitAnd(v, 63), 128))>>]
    ELSE [ok |-> FALSE, bytes |-> <<>>]

\* Faulty variant: values of 0x110000 and above are encoded instead of refused.
EncodeU32Value_NoLimit(value) ==
    LET v == (value.hi % 32) * 65536 + value.lo IN
    IF U32Less(value, 128) THEN [ok |-> TRUE, bytes |-> <<ToU8(v)>>]
    ELSE IF U32Less(value, 2048) THEN
        [ok |-> TRUE,
         bytes |-> <<ToU8(BitOr(BitAnd(Shr(v, 6), 31), 192)),
                     ToU8(BitOr(BitAnd(v, 63), 128))>>]
    ELSE IF U32Less(value, 65536) THEN
        [ok |-> TRUE,
         bytes |-> <<ToU8(BitOr(BitAnd(Shr(v, 12), 15), 224)),
                     ToU8(BitOr(BitAnd(Shr(v, 6), 63), 128)),
                     ToU8(BitOr(BitAnd(v, 63), 128))>>]
    ELSE
        [ok |-> TRUE,
         bytes |-> <<ToU8(BitOr(BitAnd(Shr(v, 18), 7), 240)),
                     ToU8(BitOr(BitAnd(Shr(v, 12), 63), 128)),
                     ToU8(BitOr(BitAnd(Shr(v, 6), 63), 128)),
                     ToU8(BitOr(BitAnd(v, 63), 128))>>]

(* The body of the loop after value is read: the bytes pushed for value,   *)
(* or the refusal of a value of 0x110000 or more.  & binds tighter than |. *)
EncodeU32Value(value) ==
    LET v == value.hi * 65536 + value.lo IN
    IF U32Less(value, 128) THEN [ok |-> TRUE, bytes |-> <<ToU8(v)>>]
    ELSE IF U32Less(value, 2048) THEN
        [ok |-> TRUE,
         bytes |-> <<ToU8(BitOr(BitAnd(Shr(v, 6), 31), 192)),
                     ToU8(BitOr(BitAnd(v, 63), 128))>>]
    ELSE IF U32Less(value, 65536) THEN
        [ok |-> TRUE,
         bytes |-> <<ToU8(BitOr(BitAnd(Shr(v, 12), 15), 224)),
                     ToU8(BitOr(BitAnd(Shr(v, 6), 63), 128)),
                     ToU8(BitOr(BitAnd(v, 63), 128))>>]
    ELSE IF U32Less(value, 1114112) THEN
        [ok |-> TRUE,
         bytes |-> <<ToU8(BitOr(BitAnd(Shr(v, 18), 7), 240)),
                     ToU8(BitOr(BitAnd(Shr(v, 12), 63), 128)),
                     ToU8(BitOr(BitAnd(Shr(v, 6), 63), 128)),
                     ToU8(BitOr(BitAnd(v, 63), 128))>>]
    ELSE [ok |-> FALSE, bytes |-> <<>>]

(* One pass of the loop of convert_u32str_to_u8str_without_bom: the loop   *)
(* test, the read of element i, the push of its bytes and i++, or the      *)
(* return.                                                                 *)
convert_u32str_to_u8str_without_bom ==
    /\ pc = "u32_to_u8"
    /\ IF i < Len(src) \div 4
       THEN LET r == EncodeU32Value(ReadU32(UnitAt(src, i, 4), endian)) IN
            IF r.ok
            THEN /\ target8' = target8 \o r.bytes
                 /\ i' = i + 1
                 /\ UNCHANGED <<pc, ret>>
            ELSE /\ ret' = FALSE
                 /\ pc' = "idle"
                 /\ UNCHANGED <<target8, i>>
       ELSE /\ ret' = TRUE
            /\ pc' = "idle"
            /\ UNCHANGED <<target8, i>>
    /\ UNCHANGED <<fn, arg, endian, add_bom, src, target32, prev, budget>>

----------------------------------------------------------------------------
(* UTF-16 -> UTF-8: convert_u16str_to_u8str_without_bom.                    *)

get_u16_endian_value(cur, e) ==
    IF e = BIG_ENDIAN
    THEN BitOr(Shl(cur[1], 8), cur[2])
    ELSE BitOr(Shl(cur[2], 8), cur[1])

(* The four bytes pushed for a lead surrogate high and the unit low that   *)
(* follows it (low >= 0xdc00 here): code_point is (high - 0xd800) << 10,   *)
(* then |= (low - 0xdc00), then += 0x10000.                                 *)
SurrogatePairBytes(high, low) ==
    LET code_point == BitOr(Shl(high - 55296, 10), low - 56320) + 65536 IN
    <<ToU8(BitOr(Shr(code_point, 18), 240)),
      ToU8(BitOr(BitAnd(Shr(code_point, 12), 63), 128)),
      ToU8(BitOr(BitAnd(Shr(code_point, 6), 63), 128)),
      ToU8(BitOr(BitAnd(code_point, 63), 128))>>

\* Faulty variant: the trail unit is read but not consumed: the loop examines it again.
U16Iteration_NoAdvance(buf, e, k) ==
    LET value == get_u16_endian_value(UnitAt(buf, k, 2), e) IN
    IF value < 128 THEN [ok |-> TRUE, bytes |-> <<ToU8(value)>>, next |-> k + 1]
    ELSE IF value < 2048 THEN
        [ok |-> TRUE,
         bytes |-> <<ToU8(BitOr(BitAnd(Shr(value, 6), 31), 192)),
                     ToU8(BitOr(BitAnd(value, 63), 128))>>,
         next |-> k + 1]
    ELSE IF value >= 55296 /\ value < 56320 THEN
        IF k + 1 >= Len(buf) \div 2 THEN [ok |-> FALSE, bytes |-> <<>>, next |-> k]
        ELSE LET low == get_u16_endian_value(UnitAt(buf, k + 1, 2), e) IN
             IF low < 56320 THEN [ok |-> FALSE, bytes |-> <<>>, next |-> k]
             ELSE [ok |-> TRUE, bytes |-> SurrogatePairBytes(value, low),
                   next |-> k + 1]
    ELSE
        [ok |-> TRUE,
         bytes |-> <<ToU8(BitOr(BitAnd(Shr(value, 12), 15), 224)),
                     ToU8(BitOr(BitAnd(Shr(value, 6), 63), 128)),
                     ToU8(BitOr(BitAnd(value, 63), 128))>>,
         next |-> k + 1]

(* The body of the loop at cursor k of a buffer of Len(buf) \div 2 units:  *)
(* whether it goes on (ok), the bytes it pushes, and the cursor after the  *)
(* i++ of the for statement.  On a lead surrogate the body itself does     *)
(* i++ before it reads the next unit; a return false leaves the cursor     *)
(* where the return found it.                                              *)
U16Iteration(buf, e, k) ==
    LET value == get_u16_endian_value(UnitAt(buf, k, 2), e) IN
    IF value < 128 THEN [ok |-> TRUE, bytes |-> <<ToU8(value)>>, next |-> k + 1]
    ELSE IF value < 2048 THEN
        [ok |-> TRUE,
         bytes |-> <<ToU8(BitOr(BitAnd(Shr(value, 6), 31), 192)),
                     ToU8(BitOr(BitAnd(value, 63), 128))>>,
         next |-> k + 1]
    ELSE IF value >= 55296 /\ value < 56320 THEN
        IF k + 1 >= Len(buf) \div 2 THEN [ok |-> FALSE, bytes |-> <<>>, next |-> k]
        ELSE LET low == get_u16_endian_value(UnitAt(buf, k + 1, 2), e) IN
             IF low < 56320 THEN [ok |-> FALSE, bytes |-> <<>>, next |-> k + 1]
             ELSE [ok |-> TRUE, bytes |-> SurrogatePairBytes(value, low),
                   next |-> k + 2]
    ELSE
        [ok |-> TRUE,
         bytes |-> <<ToU8(BitOr(BitAnd(Shr(value, 12), 15), 224)),
                     ToU8(BitOr(BitAnd(Shr(value, 6), 63), 128)),
                     ToU8(BitOr(BitAnd(value, 63), 128))>>,
         next |-> k + 1]

\* One pass of the loop of convert_u16str_to_u8str_without_bom, or its return.
convert_u16str_to_u8str_without_bom ==
    /\ pc = "u16_to_u8"
    /\ IF i < Len(src) \div 2
       THEN LET r == U16Iteration(src, endian, i) IN
            IF r.ok
            THEN /\ target8' = target8 \o r.bytes
                 /\ i' = r.next
                 /\ UNCHANGED <<pc, ret>>
            ELSE /\ ret' = FALSE
                 /\ pc' = "idle"
                 /\ i' = r.next
                 /\ UNCHANGED target8
       ELSE /\ ret' = TRUE
            /\ pc' = "idle"
            /\ UNCHANGED <<target8, i>>
    /\ UNCHANGED <<fn, arg, endian, add_bom, src, target32, prev, budget>>

----------------------------------------------------------------------------
(* The byte-order marks.                                                   *)

\* The bytes of the char32_t that get_u32_str_bom returns.
get_u32_str_bom(e) ==
    IF e = BIG_ENDIAN THEN <<0, 0, 254, 255>>
    ELSE IF e = LITTLE_ENDIAN THEN <<255, 254, 0, 0>>
    ELSE <<0, 0, 0, 0>>

\* bom: the four bytes of the char32_t.
match_u32_bom(bom, e) ==
    IF bom[1] = 0 /\ bom[2] = 0 /\ bom[3] = 254 /\ bom[4] = 255
    THEN e = BIG_ENDIAN
    ELSE IF bom[1] = 255 /\ bom[2] = 254 /\ bom[3] = 0 /\ bom[4] = 0
    THEN e = LITTLE_ENDIAN
    ELSE FALSE

\* bom: the two bytes of the char16_t.
match_u16_bom(bom, e) ==
    IF bom[1] = 254 /\ bom[2] = 255 THEN e = BIG_ENDIAN
    ELSE IF bom[1] = 255 /\ bom[2] = 254 THEN e = LITTLE_ENDIAN
    ELSE FALSE

----------------------------------------------------------------------------
(* UTF-8 -> UTF-32: convert_u8str_to_u32str_little_endian and _big_endian. *)
(* u32 is the union written byte by byte; unit is <<v[0], v[1], v[2],      *)
(* v[3]>>, the bytes push_back appends to the target's memory.             *)

Stop == [ok |-> FALSE, unit |-> <<>>, len |-> 0]

\* Faulty variant: a lead byte 1110xxxx is taken for the lead of a two-byte sequence.
LittleEndianIteration_Lead(u8str, k) ==
    LET c0 == u8str[k + 1]
        c1 == u8str[k + 2]
        c2 == u8str[k + 3]
        c3 == u8str[k + 4]
    IN
    IF BitAnd(c0, 240) = 240 THEN
        IF k + 3 >= Len(u8str) THEN Stop
        ELSE [ok |-> TRUE, len |-> 4,
              unit |-> <<ToU8(BitOr(Shl(BitAnd(c2, 3), 6), BitAnd(c3, 63))),
                         ToU8(BitOr(Shl(BitAnd(c1, 15), 4), Shr(BitAnd(c2, 60), 2))),
                         ToU8(BitOr(Shl(BitAnd(c0, 7), 2), Shr(BitAnd(c1, 48), 4))),
                         0>>]
    ELSE IF BitAnd(c0, 192) = 192 THEN
        IF k + 1 >= Len(u8str) THEN Stop
        ELSE [ok |-> TRUE, len |-> 2,
              unit |-> <<ToU8(BitOr(Shl(BitAnd(c0, 3), 6), BitAnd(c1, 63))),
                         ToU8(Shr(BitAnd(c0, 28), 2)),
                         0, 0>>]
    ELSE IF BitAnd(c0, 127) = c0 THEN
        [ok |-> TRUE, len |-> 1, unit |-> <<c0, 0, 0, 0>>]
    ELSE Stop

(* The body of the loop of convert_u8str_to_u32str_little_endian at cursor *)
(* k: whether it goes on, the unit it pushes and how far the cursor moves. *)
LittleEndianIteration(u8str, k) ==
    LET c0 == u8str[k + 1]
        c1 == u8str[k + 2]
        c2 == u8str[k + 3]
        c3 == u8str[k + 4]
    IN
    IF BitAnd(c0, 240) = 240 THEN
        IF k + 3 >= Len(u8str) THEN Stop
        ELSE [ok |-> TRUE, len |-> 4,
              unit |-> <<ToU8(BitOr(Shl(BitAnd(c2, 3), 6), BitAnd(c3, 63))),
                         ToU8(BitOr(Shl(BitAnd(c1, 15), 4), Shr(BitAnd(c2, 60), 2))),
                         ToU8(BitOr(Shl(BitAnd(c0, 7), 2), Shr(BitAnd(c1, 48), 4))),
                         0>>]
    ELSE IF BitAnd(c0, 224) = 224 THEN
        IF k + 2 >= Len(u8str) THEN Stop
        ELSE [ok |-> TRUE, len |-> 3,
              unit |-> <<ToU8(BitOr(Shl(BitAnd(c1, 3), 6), BitAnd(c2, 63))),
                         ToU8(BitOr(Shl(BitAnd(c0, 15), 4), Shr(BitAnd(c1, 60), 2))),
                         0, 0>>]
    ELSE IF BitAnd(c0, 192) = 192 THEN
        IF k + 1 >= Len(u8str) THEN Stop
        ELSE [ok |-> TRUE, len |-> 2,
              unit |-> <<ToU8(BitOr(Shl(BitAnd(c0, 3), 6), BitAnd(c1, 63))),
                         ToU8(Shr(BitAnd(c0, 28), 2)),
                         0, 0>>]
    ELSE IF BitAnd(c0, 127) = c0 THEN
        [ok |-> TRUE, len |-> 1, unit |-> <<c0, 0, 0, 0>>]
    ELSE Stop

\* Faulty variant: a four-byte sequence that ends exactly at the end of the input is refused.
BigEndianIteration_OffByOne(u8str, k) ==
    LET c0 == u8str[k + 1]
        c1 == u8str[k + 2]
        c2 == u8str[k + 3]
        c3 == u8str[k + 4]
    IN
    IF BitAnd(c0, 240) = 240 THEN
        IF k + 4 >= Len(u8str) THEN Stop
        ELSE [ok |-> TRUE, len |-> 4,
              unit |-> <<0,
                         ToU8(BitOr(Shl(BitAnd(c0, 7), 2), Shr(BitAnd(c1, 48), 4))),
                         ToU8(BitOr(Shl(BitAnd(c1, 15), 4), Shr(BitAnd(c2, 60), 2))),
                         ToU8(BitOr(Shl(BitAnd(c2, 3), 6), BitAnd(c3, 63)))>>]
    ELSE IF BitAnd(c0, 224) = 224 THEN
        IF k + 2 >= Len(u8str) THEN Stop
        ELSE [ok |-> TRUE, len |-> 3,
              unit |-> <<0, 0,
                         ToU8(BitOr(Shl(BitAnd(c0, 15), 4), Shr(BitAnd(c1, 60), 2))),
                         ToU8(BitOr(Shl(BitAnd(c1, 3), 6), BitAnd(c2, 63)))>>]
    ELSE IF BitAnd(c0, 192) = 192 THEN
        IF k + 1 >= Len(u8str) THEN Stop
        ELSE [ok |-> TRUE, len |-> 2,
              unit |-> <<0, 0,
                         ToU8(Shr(BitAnd(c0, 28), 2)),
                         ToU8(BitOr(Shl(BitAnd(c0, 3), 6), BitAnd(c1, 63)))>>]
    ELSE IF BitAnd(c0, 127) = c0 THEN
        [ok |-> TRUE, len |-> 1, unit |-> <<0, 0, 0, c0>>]
    ELSE Stop

\* The body of the loop of convert_u8str_to_u32str_big_endian at cursor k.
BigEndianIteration(u8str, k) ==
    LET c0 == u8str[k + 1]
        c1 == u8str[k + 2]
        c2 == u8str[k + 3]
        c3 == u8str[k + 4]
    IN
    IF BitAnd(c0, 240) = 240 THEN
        IF k + 3 >= Len(u8str) THEN Stop
        ELSE [ok |-> TRUE, len |-> 4,
              unit |-> <<0,
                         ToU8(BitOr(Shl(BitAnd(c0, 7), 2), Shr(BitAnd(c1, 48), 4))),
                         ToU8(BitOr(Shl(BitAnd(c1, 15), 4), Shr(BitAnd(c2, 60), 2))),
                         ToU8(BitOr(Shl(BitAnd(c2, 3), 6), BitAnd(c3, 63)))>>]
    ELSE IF BitAnd(c0, 224) = 224 THEN
        IF k + 2 >= Len(u8str) THEN Stop
        ELSE [ok |-> TRUE, len |-> 3,
              unit |-> <<0, 0,
                         ToU8(BitOr(Shl(BitAnd(c0, 15), 4), Shr(BitAnd(c1, 60), 2))),
                         ToU8(BitOr(Shl(BitAnd(c1, 3), 6), BitAnd(c2, 63)))>>]
    ELSE IF BitAnd(c0, 192) = 192 THEN
        IF k + 1 >= Len(u8str) THEN Stop
        ELSE [ok |-> TRUE, len |-> 2,
              unit |-> <<0, 0,
                         ToU8(Shr(BitAnd(c0, 28), 2)),
                         ToU8(BitOr(Shl(BitAnd(c0, 3), 6), BitAnd(c1, 63)))>>]
    ELSE IF BitAnd(c0, 127) = c0 THEN
        [ok |-> TRUE, len |-> 1, unit |-> <<0, 0, 0, c0>>]
    ELSE Stop

\* One pass of the loop of convert_u8str_to_u32str_little_endian, or its return.
convert_u8str_to_u32str_little_endian ==
    /\ pc = "u8_to_u32_little"
    /\ IF i < Len(src)
       THEN LET r == LittleEndianIteration(src, i) IN
            IF r.ok
            THEN /\ target32' = target32 \o r.unit
                 /\ i' = i + r.len
                 /\ UNCHANGED <<pc, ret>>
            ELSE /\ ret' = FALSE
                 /\ pc' = "idle"
                 /\ UNCHANGED <<target32, i>>
       ELSE /\ ret' = TRUE
            /\ pc' = "idle"
            /\ UNCHANGED <<target32, i>>
    /\ UNCHANGED <<fn, arg, endian, add_bom, src, target8, prev, budget>>

\* One pass of the loop of convert_u8str_to_u32str_big_endian, or its return.
convert_u8str_to_u32str_big_endian ==
    /\ pc = "u8_to_u32_big"
    /\ IF i < Len(src)
       THEN LET r == BigEndianIteration(src, i) IN
            IF r.ok
            THEN /\ target32' = target32 \o r.unit
                 /\ i' = i + r.len
                 /\ UNCHANGED <<pc, ret>>
            ELSE /\ ret' = FALSE
                 /\ pc' = "idle"
                 /\ UNCHANGED <<target32, i>>
       ELSE /\ ret' = TRUE
            /\ pc' = "idle"
            /\ UNCHANGED <<target32, i>>
    /\ UNCHANGED <<fn, arg, endian, add_bom, src, target8, prev, budget>>

----------------------------------------------------------------------------
(* The entry points: the four overloads of utf_convert::to_u8string and    *)
(* utf_convert::to_u32string.  A call is made when no conversion runs and  *)
(* the caller has a call left; Inputs is the set its input buffer is drawn *)
(* from.                                                                   *)

NoCall == [fn |-> "none", arg |-> <<>>, endian |-> BIG_ENDIAN,
           add_bom |-> FALSE, ret |-> FALSE]

\* What every call does to the caller's bookkeeping.
Called(f, a) ==
    /\ fn' = f
    /\ arg' = a
    /\ prev' = [fn |-> fn, arg |-> arg, endian |-> endian,
                add_bom |-> add_bom, ret |-> ret]
    /\ budget' = budget - 1

\* Starts the conversion loop `loop` on the bytes s with endianness e.
Enter(loop, s, e) ==
    /\ pc' = loop
    /\ src' = s
    /\ endian' = e
    /\ i' = 0
    /\ UNCHANGED ret

\* Returns false before any conversion loop runs.
Refuse ==
    /\ ret' = FALSE
    /\ pc' = "idle"
    /\ UNCHANGED <<src, endian, i>>

\* to_u8string(const std::u32string &, UTF_ENDIAN, std::string &)
to_u8string_u32(Inputs) ==
    /\ pc = "idle" /\ budget > 0
    /\ \E a \in Inputs, e \in Endians :
        /\ Called("to_u8string_u32", a)
        /\ target8' = <<>>
        /\ Enter("u32_to_u8", a, e)
    /\ UNCHANGED <<add_bom, target32>>

\* Faulty variant: the first element is handed to the conversion with the rest.
U32AfterBom_Kept(a) == a

\* The pointer and size handed on by the overload that reads a BOM: u32str_ptr + 4.
U32AfterBom(a) == DropBytes(a, 4)

\* to_u8string(const std::u32string &, std::string &)
to_u8string_u32_bom(Inputs) ==
    /\ pc = "idle" /\ budget > 0
    /\ \E a \in Inputs :
        /\ Called("to_u8string_u32_bom", a)
        /\ IF Len(a) = 0
           THEN Refuse /\ UNCHANGED target8
           ELSE /\ target8' = <<>>
                /\ IF match_u32_bom(UnitAt(a, 0, 4), BIG_ENDIAN)
                   THEN Enter("u32_to_u8", U32AfterBom(a), BIG_ENDIAN)
                   ELSE IF match_u32_bom(UnitAt(a, 0, 4), LITTLE_ENDIAN)
                   THEN Enter("u32_to_u8", U32AfterBom(a), LITTLE_ENDIAN)
                   ELSE Refuse
    /\ UNCHANGED <<add_bom, target32>>

\* to_u8string(const std::u16string &, UTF_ENDIAN, std::string &)
to_u8string_u16(Inputs) ==
    /\ pc = "idle" /\ budget > 0
    /\ \E a \in Inputs, e \in Endians :
        /\ Called("to_u8string_u16", a)
        /\ target8' = <<>>
        /\ Enter("u16_to_u8", a, e)
    /\ UNCHANGED <<add_bom, target32>>

(* u16str_with_bom[1], the unit the overload tests for a BOM: the second   *)
(* unit of the buffer, and for a buffer of one unit the char16_t() that    *)
(* operator[] gives at position size().                                    *)
U16BomUnit(a) == IF Len(a) \div 2 > 1 THEN UnitAt(a, 1, 2) ELSE <<0, 0>>

\* to_u8string(const std::u16string &, std::string &)
to_u8string_u16_bom(Inputs) ==
    /\ pc = "idle" /\ budget > 0
    /\ \E a \in Inputs :
        /\ Called("to_u8string_u16_bom", a)
        /\ IF Len(a) = 0
           THEN Refuse /\ UNCHANGED target8
           ELSE /\ target8' = <<>>
                /\ IF match_u16_bom(U16BomUnit(a), BIG_ENDIAN)
                   THEN Enter("u16_to_u8", DropBytes(a, 2), BIG_ENDIAN)
                   ELSE IF match_u16_bom(U16BomUnit(a), LITTLE_ENDIAN)
                   THEN Enter("u16_to_u8", DropBytes(a, 2), LITTLE_ENDIAN)
                   ELSE Refuse
    /\ UNCHANGED <<add_bom, target32>>

\* to_u32string(const std::string &, std::u32string &, UTF_ENDIAN, bool)
to_u32string(Inputs, Boms) ==
    /\ pc = "idle" /\ budget > 0
    /\ \E a \in Inputs, e \in Endians, b \in Boms :
        /\ Called("to_u32string", a)
        /\ add_bom' = b
        /\ target32' = IF b THEN get_u32_str_bom(e) ELSE <<>>
        /\ IF e = LITTLE_ENDIAN
           THEN Enter("u8_to_u32_little", a, e)
           ELSE Enter("u8_to_u32_big", a, e)
    /\ UNCHANGED target8

\* The conversion loops.
Convert ==
    \/ convert_u32str_to_u8str_without_bom
    \/ convert_u16str_to_u8str_without_bom
    \/ convert_u8str_to_u32str_little_endian
    \/ convert_u8str_to_u32str_big_endian

----------------------------------------------------------------------------
(* Input buffers.                                                          *)

SeqsUpTo(S, n) == UNION {[1..m -> S] : m \in 0..n}

\* The four bytes of the 32-bit value cp (below 2^31) in byte order e.
Unit32(cp, e) ==
    IF e = BIG_ENDIAN
    THEN <<cp \div 16777216, (cp \div 65536) % 256, (cp \div 256) % 256, cp % 256>>
    ELSE <<cp % 256, (cp \div 256) % 256, (cp \div 65536) % 256, cp \div 16777216>>

\* The two bytes of the 16-bit value u in byte order e.
Unit16(u, e) ==
    IF e = BIG_ENDIAN THEN <<u \div 256, u % 256>> ELSE <<u % 256, u \div 256>>

RECURSIVE Buffer32(_, _)
Buffer32(cps, e) ==
    IF cps = <<>> THEN <<>> ELSE Unit32(Head(cps), e) \o Buffer32(Tail(cps), e)

RECURSIVE Buffer16(_, _)
Buffer16(us, e) ==
    IF us = <<>> THEN <<>> ELSE Unit16(Head(us), e) \o Buffer16(Tail(us), e)

\* 32-bit values at the ends of the four UTF-8 lengths, the first value refused, U+FEFF.
Values32 == {65, 127, 128, 2047, 2048, 65535, 65536, 1114111, 1114112, 65279}

\* 16-bit values: ASCII, a three-byte value, lead and trail surrogates, the values next to them, U+FEFF.
Values16 == {65, 2048, 55357, 56319, 56320, 56832, 57344, 65279}

\* UTF-8 bytes: ASCII, continuation bytes, the leads of two, three and four bytes.
Bytes8 == {65, 128, 191, 195, 226, 240}

\* Code points across every range: the ends of the ranges, and one in every 4099.
CodePoints ==
    {0, 65, 127, 128, 2047, 2048, 55295, 55296, 57343, 57344, 65279, 65535,
     65536, 128512, 1114111, 1114112}
    \cup {k * 4099 : k \in 0..271}

(* Buffers of up to MaxUnits32 32-bit values, laid out in either byte      *)
(* order, and the buffers of one code point.                               *)
U32Inputs ==
    {Buffer32(s, e) : s \in SeqsUpTo(Values32, MaxUnits32), e \in Endians}
    \cup {Unit32(cp, e) : cp \in CodePoints, e \in Endians}

\* Units around the two surrogate ranges, and some inside them.
LeadEdges == {55295, 55296, 56319, 56320} \cup {55296 + 93 * k : k \in 0..11}
TrailEdges == {56319, 56320, 57343, 57344} \cup {56320 + 93 * k : k \in 0..11}

(* Buffers of up to MaxUnits16 16-bit units, laid out in either byte       *)
(* order, and the buffers of two units around the surrogate ranges.        *)
U16Inputs ==
    {Buffer16(s, e) : s \in SeqsUpTo(Values16, MaxUnits16), e \in Endians}
    \cup {Buffer16(<<l, t>>, e) : l \in LeadEdges, t \in TrailEdges, e \in Endians}

(* Byte strings of up to MaxBytes bytes, and every byte 00..FF as the      *)
(* first byte, or the byte after an "A", of a string that ends in          *)
(* continuation bytes.                                                     *)
U8Inputs ==
    SeqsUpTo(Bytes8, MaxBytes)
    \cup {p \o <<b>> \o [k \in 1..n |-> 191] :
             p \in {<<>>, <<65>>}, b \in 0..255, n \in 0..(MaxBytes - 1)}

----------------------------------------------------------------------------
(* Specifications.                                                         *)

InitWith(n) ==
    /\ fn = "none"
    /\ pc = "idle"
    /\ arg = <<>>
    /\ endian = BIG_ENDIAN
    /\ add_bom = FALSE
    /\ src = <<>>
    /\ i = 0
    /\ target8 = <<>>
    /\ target32 = <<>>
    /\ ret = FALSE
    /\ prev = NoCall
    /\ budget = n

InitOne == InitWith(1)

\* One call of a UTF-32 -> UTF-8 entry point.
NextU32 ==
    \/ to_u8string_u32(U32Inputs)
    \/ to_u8string_u32_bom(U32Inputs)
    \/ convert_u32str_to_u8str_without_bom

SpecU32 == InitOne /\ [][NextU32]_vars

\* One call of a UTF-16 -> UTF-8 entry point.
NextU16 ==
    \/ to_u8string_u16(U16Inputs)
    \/ to_u8string_u16_bom(U16Inputs)
    \/ convert_u16str_to_u8str_without_bom

SpecU16 == InitOne /\ [][NextU16]_vars

\* One call of the UTF-8 -> UTF-32 entry point.
NextU8 ==
    \/ to_u32string(U8Inputs, BOOLEAN)
    \/ convert_u8str_to_u32str_little_endian
    \/ convert_u8str_to_u32str_big_endian

SpecU8 == InitOne /\ [][NextU8]_vars

\* Has the last call returned?
Returned(f) == fn = f /\ pc = "idle"

----------------------------------------------------------------------------
(* Round trips: the caller hands the output of one conversion to the       *)
(* opposite one.                                                           *)

InitTwo == InitWith(2)

\* Byte strings for the round trip: ASCII, a continuation byte, leads of two and four bytes.
U8InputsRT == SeqsUpTo({65, 191, 195, 244}, MaxBytes)

\* The caller encodes one code point laid out in some byte order.
RT_Encode ==
    /\ budget = 2
    /\ to_u8string_u32({Unit32(cp, e) : cp \in CodePoints, e \in Endians})

\* The caller decodes the bytes the encoder has just produced.
RT_DecodeBack ==
    /\ budget = 1 /\ fn = "to_u8string_u32" /\ ret = TRUE
    /\ to_u32string({target8}, BOOLEAN)

\* The caller decodes a byte string.
RT_Decode ==
    /\ budget = 2
    /\ to_u32string(U8InputsRT, {FALSE})

\* The caller encodes the elements the decoder has just produced.
RT_EncodeBack ==
    /\ budget = 1 /\ fn = "to_u32string" /\ ret = TRUE
    /\ to_u8string_u32({target32})

NextRT ==
    \/ RT_Encode
    \/ RT_DecodeBack
    \/ RT_Decode
    \/ RT_EncodeBack
    \/ convert_u32str_to_u8str_without_bom
    \/ convert_u8str_to_u32str_little_endian
    \/ convert_u8str_to_u32str_big_endian

SpecRT == InitTwo /\ [][NextRT]_vars

----------------------------------------------------------------------------
(* A session: up to MaxCalls calls of any entry point, every one with the  *)
(* same two output buffers.                                                *)

Session32 ==
    {<<>>, Buffer32(<<65>>, BIG_ENDIAN), Buffer32(<<1114112>>, BIG_ENDIAN),
     Buffer32(<<65279, 233>>, BIG_ENDIAN), Buffer32(<<65279, 233>>, LITTLE_ENDIAN)}

Session16 ==
    {<<>>, Buffer16(<<65>>, BIG_ENDIAN), Buffer16(<<55357>>, BIG_ENDIAN),
     Buffer16(<<65279, 233>>, BIG_ENDIAN), Buffer16(<<66, 65279>>, LITTLE_ENDIAN)}

Session8 == {<<>>, <<65>>, <<128>>, <<195, 169>>}

Init == InitWith(MaxCalls)

Next ==
    \/ to_u8string_u32(Session32)
    \/ to_u8string_u32_bom(Session32)
    \/ to_u8string_u16(Session16)
    \/ to_u8string_u16_bom(Session16)
    \/ to_u32string(Session8, BOOLEAN)
    \/ Convert

Spec == Init /\ [][Next]_vars

----------------------------------------------------------------------------
(* The conversion loops run from cursor k to their return, by the same     *)
(* loop bodies: what a call returns and appends to the output out.         *)

RECURSIVE RunU32(_, _, _, _)
RunU32(buf, e, k, out) ==
    IF k < Len(buf) \div 4
    THEN LET r == EncodeU32Value(ReadU32(UnitAt(buf, k, 4), e)) IN
         IF r.ok THEN RunU32(buf, e, k + 1, out \o r.bytes)
         ELSE [ret |-> FALSE, out |-> out]
    ELSE [ret |-> TRUE, out |-> out]

RECURSIVE RunU16(_, _, _, _)
RunU16(buf, e, k, out) ==
    IF k < Len(buf) \div 2
    THEN LET r == U16Iteration(buf, e, k) IN
         IF r.ok THEN RunU16(buf, e, r.next, out \o r.bytes)
         ELSE [ret |-> FALSE, out |-> out]
    ELSE [ret |-> TRUE, out |-> out]

RECURSIVE RunU8(_, _, _, _)
RunU8(u8str, e, k, out) ==
    IF k < Len(u8str)
    THEN LET r == IF e = LITTLE_ENDIAN THEN LittleEndianIteration(u8str, k)
                  ELSE BigEndianIteration(u8str, k) IN
         IF r.ok THEN RunU8(u8str, e, k + r.len, out \o r.unit)
         ELSE [ret |-> FALSE, out |-> out]
    ELSE [ret |-> TRUE, out |-> out]

----------------------------------------------------------------------------
(* What the encoders are to produce, stated by arithmetic on the code      *)
(* point rather than by the shifts and masks of the code.                  *)

\* The value of a 32-bit element read in byte order e, or -1 when it is 0x110000 or more.
RefValue(cur, e) ==
    LET m == IF e = BIG_ENDIAN THEN cur ELSE <<cur[4], cur[3], cur[2], cur[1]>> IN
    IF m[1] = 0 /\ m[2] <= 16 THEN m[2] * 65536 + m[3] * 256 + m[4] ELSE -1

\* The UTF-8 encoding of the code point cp.
RefUtf8(cp) ==
    IF cp < 128 THEN <<cp>>
    ELSE IF cp < 2048 THEN <<192 + cp \div 64, 128 + (cp % 64)>>
    ELSE IF cp < 65536 THEN
        <<224 + cp \div 4096, 128 + ((cp \div 64) % 64), 128 + (cp % 64)>>
    ELSE <<240 + cp \div 262144, 128 + ((cp \div 4096) % 64),
           128 + ((cp \div 64) % 64), 128 + (cp % 64)>>

\* Is b a continuation byte 10xxxxxx?
IsContinuation(b) == b \in 128..191

(* Is p the minimal UTF-8 form of cp: a lead byte of the pattern of its    *)
(* length, continuation bytes 10xxxxxx, payload bits that spell cp, and cp *)
(* too large for a shorter form.                                           *)
MinimalUtf8(p, cp) ==
    \/ Len(p) = 1 /\ p[1] \in 0..127 /\ cp = p[1]
    \/ /\ Len(p) = 2 /\ p[1] \in 192..223 /\ IsContinuation(p[2])
       /\ cp = (p[1] - 192) * 64 + (p[2] - 128)
       /\ cp >= 128
    \/ /\ Len(p) = 3 /\ p[1] \in 224..239
       /\ IsContinuation(p[2]) /\ IsContinuation(p[3])
       /\ cp = (p[1] - 224) * 4096 + (p[2] - 128) * 64 + (p[3] - 128)
       /\ cp >= 2048
    \/ /\ Len(p) = 4 /\ p[1] \in 240..247
       /\ IsContinuation(p[2]) /\ IsContinuation(p[3]) /\ IsContinuation(p[4])
       /\ cp = (p[1] - 240) * 262144 + (p[2] - 128) * 4096
                + (p[3] - 128) * 64 + (p[4] - 128)
       /\ cp >= 65536

\* The values of the elements of a UTF-32 buffer read in byte order e.
RefValues(buf, e) == [k \in 1..(Len(buf) \div 4) |-> RefValue(UnitAt(buf, k - 1, 4), e)]

\* The number of elements before the first one of 0x110000 or more (all of them if there is none).
FirstRefused(vs) ==
    IF \E k \in 1..Len(vs) : vs[k] < 0
    THEN (CHOOSE k \in 1..Len(vs) : vs[k] < 0 /\ \A j \in 1..(k - 1) : vs[j] >= 0) - 1
    ELSE Len(vs)

\* The UTF-8 encodings of the first n values of vs, one after the other.
RECURSIVE RefUtf8Concat(_, _)
RefUtf8Concat(vs, n) ==
    IF n = 0 THEN <<>> ELSE RefUtf8Concat(vs, n - 1) \o RefUtf8(vs[n])

\* What the UTF-32 encoder is to return and to leave in its output for the buffer buf.
RefEncode32(buf, e) ==
    LET vs == RefValues(buf, e) IN
    [ret |-> FirstRefused(vs) = Len(vs), out |-> RefUtf8Concat(vs, FirstRefused(vs))]

----------------------------------------------------------------------------
(* Claims on the UTF-32 -> UTF-8 encoder, under SpecU32.                    *)

(* C3: for an input whose values, read in the declared endianness, are all *)
(* below 0x110000, the encoder has at every point of its loop pushed the   *)
(* minimal UTF-8 encodings of the elements before the cursor, in order,    *)
(* and it returns true with the cursor at the end: 1 byte below 0x80,      *)
(* 2 below 0x800, 3 below 0x10000, 4 below 0x110000.                       *)
C3_MinimalEncodings ==
    fn = "to_u8string_u32" =>
        LET vs == RefValues(arg, endian) IN
        (\A k \in 1..Len(vs) : vs[k] >= 0) =>
            /\ i <= Len(vs)
            /\ target8 = RefUtf8Concat(vs, i)
            /\ \A k \in 1..i : MinimalUtf8(RefUtf8(vs[k]), vs[k])
            /\ \A k \in 1..i :
                   Len(RefUtf8(vs[k])) =
                       IF vs[k] < 128 THEN 1 ELSE IF vs[k] < 2048 THEN 2
                       ELSE IF vs[k] < 65536 THEN 3 ELSE 4
            /\ pc = "idle" => ret = TRUE /\ i = Len(vs)

\* C3's case: 0x7FF, 0x10000 and 0x7F, little-endian, encoded in 2, 4 and 1 bytes.
C3_Witness ==
    /\ Returned("to_u8string_u32")
    /\ arg = Buffer32(<<2047, 65536, 127>>, LITTLE_ENDIAN)
    /\ endian = LITTLE_ENDIAN
    /\ ret = TRUE
    /\ target8 = <<223, 191, 240, 144, 128, 128, 127>>

(* C10: when element k is the first of 0x110000 or more, the cursor never  *)
(* passes k, and the encoder returns false with the cursor on k and the    *)
(* output holding exactly the encodings of elements 0..k-1.                *)
C10_FailFastPartialOutput ==
    fn = "to_u8string_u32" =>
        LET vs == RefValues(arg, endian)
            k == FirstRefused(vs)
        IN k < Len(vs) =>
            /\ i <= k
            /\ target8 = RefUtf8Concat(vs, i)
            /\ pc = "idle" => ret = FALSE /\ i = k

\* C10's case: <<0x41, 0x110000, 0x41>> fails on element 1 and leaves "A".
C10_Witness ==
    /\ Returned("to_u8string_u32")
    /\ arg = Buffer32(<<65, 1114112, 65>>, BIG_ENDIAN)
    /\ endian = BIG_ENDIAN
    /\ ret = FALSE
    /\ i = 1
    /\ target8 = <<65>>

(* C6: the overload that reads a BOM returns false on an empty buffer and  *)
(* on a first element that is neither 00 00 FE FF nor FF FE 00 00; on a    *)
(* first element that is the BOM of byte order E it returns what the       *)
(* encoder is to return for the elements after the first read in byte      *)
(* order E, and leaves that output.                                        *)
C6_BomOverloadU32 ==
    Returned("to_u8string_u32_bom") =>
        IF Len(arg) = 0 THEN ret = FALSE
        ELSE LET first == UnitAt(arg, 0, 4)
                 rest == SubSeq(arg, 5, Len(arg))
             IN
             /\ first \notin {<<0, 0, 254, 255>>, <<255, 254, 0, 0>>} => ret = FALSE
             /\ first = <<0, 0, 254, 255>> =>
                    /\ ret = RefEncode32(rest, BIG_ENDIAN).ret
                    /\ target8 = RefEncode32(rest, BIG_ENDIAN).out
             /\ first = <<255, 254, 0, 0>> =>
                    /\ ret = RefEncode32(rest, LITTLE_ENDIAN).ret
                    /\ target8 = RefEncode32(rest, LITTLE_ENDIAN).out

\* C6's case: the little-endian BOM followed by 0x41 gives "A".
C6_Witness ==
    /\ Returned("to_u8string_u32_bom")
    /\ arg = <<255, 254, 0, 0, 65, 0, 0, 0>>
    /\ ret = TRUE
    /\ target8 = <<65>>

----------------------------------------------------------------------------
(* Claims on the UTF-16 -> UTF-8 encoder, under SpecU16.                    *)

\* The value of unit k (from 0) of a UTF-16 buffer read in byte order e.
RefUnit16(buf, k, e) ==
    IF e = BIG_ENDIAN THEN buf[2 * k + 1] * 256 + buf[2 * k + 2]
    ELSE buf[2 * k + 2] * 256 + buf[2 * k + 1]

IsLeadSurrogate(u) == u \in 55296..56319
IsTrailSurrogate(u) == u \in 56320..57343

\* Is the loop at a lead surrogate that the unit after it does not complete?
AtUnpairedLead ==
    /\ pc = "u16_to_u8"
    /\ i < Len(src) \div 2
    /\ IsLeadSurrogate(RefUnit16(src, i, endian))
    /\ ~ (/\ i + 1 < Len(src) \div 2
          /\ IsTrailSurrogate(RefUnit16(src, i + 1, endian)))

(* C4: whenever the loop reads a lead surrogate at the cursor, the call    *)
(* fails unless a following unit exists and lies in [0xDC00, 0xE000).      *)
C4_LeadNeedsTrail ==
    [][AtUnpairedLead => (pc' = "idle" /\ ret' = FALSE)]_vars

(* C8: a lead surrogate L followed by a trail surrogate T is consumed in   *)
(* one pass of the loop, which moves the cursor past T and appends the     *)
(* four UTF-8 bytes of 0x10000 + ((L - 0xD800) << 10) + (T - 0xDC00), the  *)
(* bytes the UTF-32 encoder pushes for that code point.                    *)
C8_SurrogatePair ==
    [][(/\ pc = "u16_to_u8"
        /\ i + 1 < Len(src) \div 2
        /\ IsLeadSurrogate(RefUnit16(src, i, endian))
        /\ IsTrailSurrogate(RefUnit16(src, i + 1, endian)))
       => LET cp == 65536 + (RefUnit16(src, i, endian) - 55296) * 1024
                          + (RefUnit16(src, i + 1, endian) - 56320)
          IN /\ pc' = "u16_to_u8"
             /\ i' = i + 2
             /\ target8' = target8 \o RefUtf8(cp)
             /\ MinimalUtf8(RefUtf8(cp), cp)
             /\ Len(RefUtf8(cp)) = 4
             /\ RefUtf8(cp) = EncodeU32Value([hi |-> cp \div 65536,
                                              lo |-> cp % 65536]).bytes]_vars

\* C8's case: <<0xD83D, 0xDE00, 0x41>> gives the bytes of U+1F600, then "A".
C8_Witness ==
    /\ Returned("to_u8string_u16")
    /\ arg = Buffer16(<<55357, 56832, 65>>, LITTLE_ENDIAN)
    /\ endian = LITTLE_ENDIAN
    /\ ret = TRUE
    /\ i = 3
    /\ target8 = <<240, 159, 152, 128, 65>>

(* C5: for a buffer whose first unit is the BOM of byte order E (FE FF or  *)
(* FF FE) the overload that reads a BOM returns what the encoder returns   *)
(* for the units after the first read in byte order E, and leaves that     *)
(* output; for a first unit that is neither it returns false.              *)
C5_BomOverloadU16 ==
    (Returned("to_u8string_u16_bom") /\ Len(arg) > 0) =>
        LET first == UnitAt(arg, 0, 2)
            rest == SubSeq(arg, 3, Len(arg))
        IN
        /\ first \notin {<<254, 255>>, <<255, 254>>} => ret = FALSE
        /\ first = <<254, 255>> =>
               /\ ret = RunU16(rest, BIG_ENDIAN, 0, <<>>).ret
               /\ target8 = RunU16(rest, BIG_ENDIAN, 0, <<>>).out
        /\ first = <<255, 254>> =>
               /\ ret = RunU16(rest, LITTLE_ENDIAN, 0, <<>>).ret
               /\ target8 = RunU16(rest, LITTLE_ENDIAN, 0, <<>>).out

----------------------------------------------------------------------------
(* Claims on the UTF-8 -> UTF-32 decoder, under SpecU8.                     *)

\* The length a lead byte announces: 0 for a byte 10xxxxxx.
RefLeadLength(b) ==
    IF b >= 240 THEN 4
    ELSE IF b >= 224 THEN 3
    ELSE IF b >= 192 THEN 2
    ELSE IF b <= 127 THEN 1
    ELSE 0

(* The scan of a byte string from position k: the positions of the lead    *)
(* bytes visited, the position where the scan ends, and whether it ends at *)
(* the end of the input rather than on a byte 10xxxxxx or on a lead whose  *)
(* sequence passes the end.                                                *)
RECURSIVE RefScan(_, _, _)
RefScan(bytes, k, leads) ==
    IF k >= Len(bytes) THEN [ok |-> TRUE, at |-> k, leads |-> leads]
    ELSE LET n == RefLeadLength(bytes[k + 1]) IN
         IF n = 0 \/ k + n > Len(bytes)
         THEN [ok |-> FALSE, at |-> k, leads |-> leads]
         ELSE RefScan(bytes, k + n, Append(leads, k))

\* The 32-bit values in the target that the decoder itself has pushed.
Emitted == Len(target32) \div 4 - (IF add_bom THEN 1 ELSE 0)

(* C7: the decoder visits the lead bytes of the scan from position 0 and   *)
(* has pushed one 32-bit value for every lead byte before its cursor; it   *)
(* returns false exactly when the scan ends on a byte 10xxxxxx or on a     *)
(* lead byte whose sequence passes the end of the input, with the cursor   *)
(* on that byte, and true otherwise.                                       *)
C7_DecoderScan ==
    fn = "to_u32string" =>
        LET s == RefScan(arg, 0, <<>>) IN
        /\ \/ i = s.at
           \/ \E n \in 1..Len(s.leads) : s.leads[n] = i
        /\ Emitted = Cardinality({n \in 1..Len(s.leads) : s.leads[n] < i})
        /\ Len(target32) % 4 = 0
        /\ pc = "idle" => /\ ret = s.ok
                          /\ i = s.at
                          /\ Emitted = Len(s.leads)

\* C7's case: "A", then a three-byte lead with one continuation byte only.
C7_Witness ==
    /\ Returned("to_u32string")
    /\ arg = <<65, 226, 128>>
    /\ endian = BIG_ENDIAN
    /\ add_bom = FALSE
    /\ ret = FALSE
    /\ i = 1
    /\ target32 = <<0, 0, 0, 65>>

----------------------------------------------------------------------------
(* Claims on round trips, under SpecRT.                                    *)

\* Is cp a code point outside the surrogate range?
IsScalar(cp) == cp \in 0..55295 \/ cp \in 57344..1114111

(* C1: a buffer of one code point outside the surrogate range, laid out in *)
(* byte order E, is encoded with success by the UTF-32 encoder under E,    *)
(* and the decoder, given those bytes, E and add_bom = false, returns true *)
(* and leaves exactly that buffer.                                         *)
C1_RoundTripFromCodePoint ==
    /\ (/\ Returned("to_u8string_u32")
        /\ Len(arg) = 4
        /\ IsScalar(RefValue(arg, endian)))
       => ret = TRUE
    /\ (/\ Returned("to_u32string")
        /\ prev.fn = "to_u8string_u32"
        /\ Len(prev.arg) = 4
        /\ IsScalar(RefValue(prev.arg, prev.endian))
        /\ endian = prev.endian
        /\ add_bom = FALSE)
       => (ret = TRUE /\ target32 = prev.arg)

\* C1's case: U+1F600, little-endian, through F0 9F 98 80 and back.
C1_Witness ==
    /\ Returned("to_u32string")
    /\ prev.fn = "to_u8string_u32"
    /\ prev.arg = <<0, 246, 1, 0>>
    /\ prev.endian = LITTLE_ENDIAN
    /\ endian = LITTLE_ENDIAN
    /\ add_bom = FALSE
    /\ arg = <<240, 159, 152, 128>>
    /\ ret = TRUE
    /\ target32 = <<0, 246, 1, 0>>

(* C2: when the decoder (add_bom = false) has returned true for a byte     *)
(* string b, the UTF-32 encoder, given the decoder's output and the same   *)
(* endianness, returns true and leaves exactly b.                          *)
C2_RoundTripFromBytes ==
    (/\ Returned("to_u8string_u32")
     /\ prev.fn = "to_u32string"
     /\ prev.ret = TRUE
     /\ prev.add_bom = FALSE
     /\ endian = prev.endian)
    => (ret = TRUE /\ target8 = prev.arg)

----------------------------------------------------------------------------
(* Claims on the output buffers, under Spec.                               *)

\* What a call leaves in a std::string target that is empty when it is called.
FreshTarget8(f, a, e) ==
    IF f = "to_u8string_u32" THEN RunU32(a, e, 0, <<>>).out
    ELSE IF f = "to_u8string_u16" THEN RunU16(a, e, 0, <<>>).out
    ELSE IF f = "to_u8string_u32_bom" THEN
        IF Len(a) = 0 THEN <<>>
        ELSE IF match_u32_bom(UnitAt(a, 0, 4), BIG_ENDIAN)
        THEN RunU32(U32AfterBom(a), BIG_ENDIAN, 0, <<>>).out
        ELSE IF match_u32_bom(UnitAt(a, 0, 4), LITTLE_ENDIAN)
        THEN RunU32(U32AfterBom(a), LITTLE_ENDIAN, 0, <<>>).out
        ELSE <<>>
    ELSE
        IF Len(a) = 0 THEN <<>>
        ELSE IF match_u16_bom(U16BomUnit(a), BIG_ENDIAN)
        THEN RunU16(DropBytes(a, 2), BIG_ENDIAN, 0, <<>>).out
        ELSE IF match_u16_bom(U16BomUnit(a), LITTLE_ENDIAN)
        THEN RunU16(DropBytes(a, 2), LITTLE_ENDIAN, 0, <<>>).out
        ELSE <<>>

\* What a call of to_u32string leaves in a std::u32string target that is empty when it is called.
FreshTarget32(a, e, b) ==
    RunU8(a, e, 0, IF b THEN get_u32_str_bom(e) ELSE <<>>).out

(* C9: every entry point clears its output buffer on entry: when a call    *)
(* has returned, true or false, the buffer it writes holds what the call   *)
(* leaves in an empty buffer, and nothing of what it held before.          *)
C9_TargetClearedOnEntry ==
    (pc = "idle" /\ fn # "none") =>
        IF fn = "to_u32string"
        THEN target32 = FreshTarget32(arg, endian, add_bom)
        ELSE target8 = FreshTarget8(fn, arg, endian)

====
